---------------------------- MODULE Spec2Model ----------------------------
(***************************************************************************)
(* Bidirectional sheet <-> database sync: the webhook routes, the two       *)
(* event normalizers and the reconciliation engine (processSyncEvent),      *)
(* over a store holding the users table, sync_conflicts and webhook_audit.  *)
(*                                                                          *)
(* A request is a webhook (kind "sheet" or "db") or a direct call of the    *)
(* exported processSyncEvent (kind "engine").  Every await on the store is  *)
(* one step, so requests interleave exactly at the store I/O points; with   *)
(* faults set, every store statement may fail.                              *)
(***************************************************************************)
EXTENDS Integers, Sequences, FiniteSets, TLC

\* ------------------------------------------------------------------ bounds
NumRows == 2          \* row ids an event may name: 1..NumRows
MaxEvents == 3        \* requests in one behaviour
MaxTime == 1          \* clock ticks 0..MaxTime
MaxVersion == 3       \* versions an event may carry: 1..MaxVersion
NumReq == 2           \* request slots (requests in flight at once)
ManyCalls == 2        \* calls in one behaviour of the many-field events
FaultyCalls == 2      \* requests in one behaviour over the failing store

\* ------------------------------------------------------------- vocabulary
Values == {"A", "B"}
Unset == "NULL"       \* a column no statement has given a value
Absent == "-"         \* a key that is not in an object
Fields == {"name", "email", "salary"}
FieldOrder == <<"name", "email", "salary">>
InFields == {"name"}
Sources == {"SHEET", "DB", "MANUAL"}
Operations == {"INSERT", "UPDATE", "DELETE"}
NoTime == -1          \* an event without a timestamp
Missing == -1         \* a number key that is not in a payload
NoChanges == [keys |-> "none"]   \* a payload without a changes key
NoRec == [version |-> 0]
NoEvent == [operation |-> "none"]
\* What processSyncEvent returns: {status, reason}, {status, operation, rowId,
\* newVersion} or {error}; a missing key is Absent (0 for the numbers).
Result(status, reason, error, operation, rowId, newVersion) ==
  [status |-> status, reason |-> reason, error |-> error,
   operation |-> operation, rowId |-> rowId, newVersion |-> newVersion]
NoResult == Result("none", Absent, Absent, Absent, 0, 0)
ThrewResult == Result("threw", Absent, Absent, Absent, 0, 0)
Ignored(reason) == Result("ignored", reason, Absent, Absent, 0, 0)
Failed(error) == Result(Absent, Absent, error, Absent, 0, 0)
Success(operation, rowId, newVersion) ==
  Result("success", Absent, Absent, operation, rowId, newVersion)
Reqs == 1..NumReq
\* AUTO_INCREMENT ids: the rows a store starts with, and one more per request
\* at most.
Ids == 1..(NumRows + MaxEvents)

VARIABLES users, nextId, conflictLog, audit, now, req, started, updates, scen,
          faults, change_log

\* change_log holds the rows of the table of that name: schema.sql creates it
\* and no statement of the program inserts into it.
vars == <<users, nextId, conflictLog, audit, now, req, started, updates, scen,
          faults, change_log>>

\* The set of changes objects over InFields: each key absent or a value.
ChangeSets ==
  {[f \in Fields |-> IF f \in InFields THEN c[f] ELSE Absent] :
     c \in [InFields -> Values \cup {Absent}]}

Keys(changes) == {f \in Fields : changes[f] # Absent}

\* The value a changes object gives for the key id, the primary key column;
\* 0 when it has no such key.
NewId(changes) == IF "id" \in DOMAIN changes THEN changes.id ELSE 0

\* The keys of a changes object that are no column of the users table.
UnknownKeys(changes) ==
  {k \in (DOMAIN changes) \ (Fields \cup {"id"}) : changes[k] # Absent}

\* -------------------------------------------------------------- normalizers
columnMap(column) ==
  CASE column = 1 -> "id"
    [] column = 2 -> "name"
    [] column = 3 -> "email"
    [] column = 4 -> "salary"
    [] OTHER -> Absent

\* A normalizer that turns a cell edit into the creation of its row.
parseSheetAsInsert(payload, clock) ==
  IF payload.row = 0 \/ payload.sheetName = "" THEN NoEvent
  ELSE IF columnMap(payload.column) \in {Absent, "id"} THEN NoEvent
  ELSE [source |-> "SHEET", rowId |-> payload.row, tableId |-> "users",
        operation |-> "INSERT", timestamp |-> clock, version |-> 0,
        changes |-> [f \in Fields |->
                       IF f = columnMap(payload.column) THEN payload.newValue
                       ELSE Absent]]

\* !payload.row is true of a missing row and of row 0; "" is the missing name.
parseSheetEvent(payload, clock) ==
  IF payload.row = 0 \/ payload.sheetName = "" THEN NoEvent
  ELSE IF columnMap(payload.column) = Absent THEN NoEvent
  ELSE IF columnMap(payload.column) = "id" THEN NoEvent
  ELSE [source |-> "SHEET", rowId |-> payload.row, tableId |-> "users",
        operation |-> "UPDATE", timestamp |-> clock, version |-> 0,
        changes |-> [f \in Fields |->
                       IF f = columnMap(payload.column) THEN payload.newValue
                       ELSE Absent]]

\* !payload.rowId is true of a missing rowId and of rowId 0; payload.version
\* || 1 gives 1 for a missing version and for version 0; payload.changes || {}.
parseDbEvent(payload, clock) ==
  IF \/ payload.tableId = ""
     \/ payload.rowId \in {Missing, 0}
     \/ payload.operation = ""
  THEN NoEvent
  ELSE [source |-> "DB", rowId |-> payload.rowId, tableId |-> payload.tableId,
        operation |-> payload.operation, timestamp |-> clock,
        version |-> IF payload.version \in {Missing, 0} THEN 1
                    ELSE payload.version,
        changes |-> IF payload.changes = NoChanges
                    THEN [f \in Fields |-> Absent]
                    ELSE payload.changes]

\* ------------------------------------------------------------------ engine
\* A strict comparison in the stale check.
isStaleStrict(currentRecord, event) ==
  IF event.version = 0 THEN FALSE
  ELSE event.version < currentRecord.version

\* A stale check that only looks at UPDATE events.
isStaleForUpdates(currentRecord, event) ==
  /\ event.operation = "UPDATE"
  /\ event.version # 0
  /\ event.version <= currentRecord.version

\* !event.version: version 0 stands for a missing version (both are falsy).
isStaleUpdate(currentRecord, event) ==
  IF event.version = 0 THEN FALSE
  ELSE event.version <= currentRecord.version

\* A loopback check that compares the wrong way round.
loopbackInverted(currentRecord, source) ==
  currentRecord.source # source /\ currentRecord.source # "MANUAL"

\* No loopback check at all.
loopbackNever(currentRecord, source) == FALSE

\* A loopback check without the exemption of MANUAL.
loopbackManualToo(currentRecord, source) == currentRecord.source = source

shouldIgnoreLoopback(currentRecord, source) ==
  currentRecord.source = source /\ currentRecord.source # "MANUAL"

\* A detection that reports every field of event.changes.
detectEveryField(currentRecord, event) == Keys(event.changes)

\* The fields of event.changes whose stored value differs (a stored column is
\* never undefined: an unset one reads as NULL).
detectConflict(currentRecord, event) ==
  {f \in Keys(event.changes) : currentRecord[f] # event.changes[f]}
    \cup (IF NewId(event.changes) \notin {0, event.rowId} THEN {"id"} ELSE {})

\* A tie that goes to the incoming value.
IncomingWinsTie(event, currentRecord) ==
  event.timestamp # NoTime /\ event.timestamp >= currentRecord.updated_at

\* event.timestamp && new Date(event.timestamp) > new Date(updated_at)
IncomingWins(event, currentRecord) ==
  event.timestamp # NoTime /\ event.timestamp > currentRecord.updated_at

\* A resolution that decides each field by itself: the first conflicting
\* field takes the incoming value whatever the timestamps say.
resolvedPerField(currentRecord, event, conflicts) ==
  [f \in Fields |->
     IF f \in conflicts
     THEN IF \/ IncomingWins(event, currentRecord)
             \/ f = Head(SelectSeq(FieldOrder, LAMBDA g : g \in conflicts))
          THEN event.changes[f]
          ELSE currentRecord[f]
     ELSE Absent]

\* currentRecord[field]: the record getRecord found under event.rowId has
\* that id.
CurrentValue(currentRecord, rowId, f) ==
  IF f = "id" THEN rowId ELSE currentRecord[f]

\* resolveConflict: one comparison of event.timestamp with the record's
\* updated_at, evaluated anew for each conflicting field.
resolvedChanges(currentRecord, event, conflicts) ==
  [f \in Fields \cup (conflicts \cap {"id"}) |->
     IF f \in conflicts
     THEN IF IncomingWins(event, currentRecord) THEN event.changes[f]
          ELSE CurrentValue(currentRecord, event.rowId, f)
     ELSE Absent]

Stringify(v) == "\"" \o v \o "\""

\* JSON.stringify of the value of field f: a string in quotes, the number of
\* the id column in digits.
JsonOf(f, v) == IF f = "id" THEN ToString(v) ELSE Stringify(v)

\* A Conflict Record that is written before it is resolved: resolved_at NULL.
ConflictRowOpen(rowId, currentRecord, event, resolved, f) ==
  [row_id |-> rowId,
   sheet_value |-> Stringify(event.changes[f]),
   db_value |-> Stringify(currentRecord[f]),
   resolved_value |-> Stringify(resolved[f]),
   resolution_strategy |-> "last_write_wins",
   resolved_at |-> Unset]

\* INSERT INTO sync_conflicts (..., resolved_at) VALUES (..., NOW()): the
\* column holds a timestamp, never NULL; the row keeps that it is set.
ConflictRow(rowId, currentRecord, event, resolved, f) ==
  [row_id |-> rowId,
   sheet_value |-> JsonOf(f, event.changes[f]),
   db_value |-> JsonOf(f, CurrentValue(currentRecord, rowId, f)),
   resolved_value |-> JsonOf(f, resolved[f]),
   resolution_strategy |-> "last_write_wins",
   resolved_at |-> "NOW"]

\* The conflicting fields in the order of the keys of event.changes.
ConflictSeq(conflicts) ==
  SelectSeq(<<"id">> \o FieldOrder, LAMBDA f : f \in conflicts)

\* ------------------------------------------------------------------- store
\* email VARCHAR(255) NOT NULL UNIQUE
UniqueEmail(table) ==
  \A i, j \in Ids :
    (i # j /\ table[i] # NoRec /\ table[j] # NoRec)
      => table[i].email # table[j].email

\* A write that clears the columns the changes do not name.
MergeReplace(row, changes) ==
  [k \in DOMAIN row |->
     IF k \in Fields
     THEN IF changes[k] # Absent THEN changes[k] ELSE Unset
     ELSE row[k]]

Merge(row, changes) ==
  [k \in DOMAIN row |->
     IF k \in Fields /\ changes[k] # Absent THEN changes[k] ELSE row[k]]

\* An update that keeps the version it read.
SameVersion(currentRecord) == currentRecord.version

\* (currentRecord.version || 0) + 1
NextVersion(currentRecord) == currentRecord.version + 1

\* An update that leaves the row alone when no business field changes.
UpdatedIfChanged(table, id, currentRecord, source, changes, clock) ==
  IF table[id] = NoRec \/ Merge(table[id], changes) = table[id] THEN table
  ELSE [table EXCEPT ![id] =
          [Merge(table[id], changes) EXCEPT
             !.source = source,
             !.version = NextVersion(currentRecord),
             !.updated_at = clock]]

\* The id the row with id `id` has after SET <changes>.
MovedTo(id, changes) == IF NewId(changes) = 0 THEN id ELSE NewId(changes)

\* id INT PRIMARY KEY: the statement fails when it gives the row an id that
\* another row has.
PrimaryKeyFree(table, id, changes) ==
  \/ table[id] = NoRec
  \/ MovedTo(id, changes) = id
  \/ table[MovedTo(id, changes)] = NoRec

\* UPDATE users SET <changes>, source = ?, version = ?, updated_at = NOW()
\* WHERE id = ?: a row that is gone is not an error (0 rows affected), and
\* "id = ?" among the changes gives the row a new primary key.
UpdatedTable(table, id, currentRecord, source, changes, clock) ==
  IF table[id] = NoRec THEN table
  ELSE [[table EXCEPT ![id] = NoRec] EXCEPT ![MovedTo(id, changes)] =
          [Merge(table[id], changes) EXCEPT
             !.source = source,
             !.version = NextVersion(currentRecord),
             !.updated_at = clock]]

InsertSource(event) == "SHEET"

\* INSERT INTO users (<keys>, source, version) VALUES (<values>, 'SHEET', 1)
InsertedRow(event, clock) ==
  [name |-> IF event.changes.name = Absent THEN Unset ELSE event.changes.name,
   email |-> IF event.changes.email = Absent THEN Unset ELSE event.changes.email,
   salary |-> IF event.changes.salary = Absent THEN Unset ELSE event.changes.salary,
   version |-> 1,
   source |-> InsertSource(event),
   updated_at |-> clock]

\* SELECT * FROM users WHERE id = ? LIMIT 1
getRecord(table, rowId) == IF rowId \in Ids THEN table[rowId] ELSE NoRec

\* A statement that overwrites the newest row of the table.
ReplaceInto(table, row) ==
  IF table = <<>> THEN <<row>> ELSE [table EXCEPT ![Len(table)] = row]

\* INSERT INTO sync_conflicts / webhook_audit: the row goes after the others.
InsertInto(table, row) == Append(table, row)

\* GET /sync/status: the three counts of its answer.
totalUsers(table) == Cardinality({i \in Ids : table[i] # NoRec})

\* SELECT COUNT(*) FROM sync_conflicts WHERE resolved_at IS NULL
unresolved_conflicts(log) ==
  Cardinality({i \in 1..Len(log) : log[i].resolved_at = Unset})

\* SELECT COUNT(*) FROM webhook_audit WHERE status = 'PROCESSED'
processed_webhooks(log) ==
  Cardinality({i \in 1..Len(log) : log[i].status = "PROCESSED"})

\* ---------------------------------------------------------------- requests
\* The JSON body of an error response: { error, message }.  A success answers
\* { status: 'success', result, timestamp }, whose result is the field res.
ErrorBody(error, message) == [error |-> error, message |-> message]
NoBody == ErrorBody(Absent, Absent)

IdleReq ==
  [kind |-> "none", pc |-> "idle", inp |-> NoEvent, ev |-> NoEvent,
   serial |-> 0, cur |-> NoRec, todo |-> <<>>, changes |-> NoEvent,
   res |-> NoResult, http |-> 0, err |-> "",
   rep |-> FALSE, res1 |-> NoResult, u0 |-> <<>>, c0 |-> <<>>, lost |-> FALSE,
   tries |-> 0, body |-> NoBody]

\* Sheet payloads: every edit of a cell of sheet Data in rows 1..NumRows and
\* columns 1..5, and one payload for each missing key.
SheetEdit == [row |-> 1, column |-> 2, newValue |-> "A", sheetName |-> "Data"]
SheetPayloads ==
  [row : 1..NumRows, column : 1..5, newValue : Values, sheetName : {"Data"}]
    \cup {[SheetEdit EXCEPT !.row = 0], [SheetEdit EXCEPT !.sheetName = ""]}

\* DB payloads: every well-formed one, with and without a version, one payload
\* for each missing key, and one each with rowId 0 and with version 0.
DbChange ==
  [tableId |-> "users", rowId |-> 1, operation |-> "UPDATE",
   changes |-> [f \in Fields |-> IF f = "name" THEN "A" ELSE Absent],
   version |-> Missing]
DbPayloads ==
  [tableId : {"users"}, rowId : 1..NumRows, operation : Operations,
   changes : ChangeSets, version : {Missing} \cup 1..MaxVersion]
    \cup {[DbChange EXCEPT !.tableId = ""], [DbChange EXCEPT !.rowId = Missing],
          [DbChange EXCEPT !.operation = ""],
          [DbChange EXCEPT !.changes = NoChanges],
          [DbChange EXCEPT !.rowId = 0], [DbChange EXCEPT !.version = 0]}

EngineEvents ==
  [source : Sources, rowId : 1..NumRows, tableId : {"users"},
   operation : Operations, timestamp : {NoTime} \cup 0..MaxTime,
   version : 0..MaxVersion, changes : ChangeSets]

\* The outcomes of a store statement: under faults it may throw wherever the
\* store would have accepted it.
Oks == IF faults THEN BOOLEAN ELSE {TRUE}

EmptyStore ==
  /\ users = [i \in Ids |-> NoRec]
  /\ nextId = 1
  /\ conflictLog = <<>>
  /\ change_log = <<>>
  /\ audit = <<>>
  /\ now = 0
  /\ req = [p \in Reqs |-> IdleReq]
  /\ started = 0
  /\ updates = [i \in Ids |-> 0]
  /\ scen = 0

\* The store is available: a statement throws only when the store rejects it.
Init == EmptyStore /\ faults = FALSE

\* The store may fail at any statement.
InitFaulty == EmptyStore /\ faults = TRUE

\* ----------------------------------------------------------------- actions
\* Where a request goes when processSyncEvent returns `result`: a direct call
\* is over, a webhook goes on to its PROCESSED audit entry.
Returned(r, result) ==
  [r EXCEPT !.res = result,
            !.pc = IF r.kind = "engine" THEN "done" ELSE "procd"]

\* Where a request goes when a store statement throws: a direct call throws
\* to its caller, a webhook enters its catch block.
Thrown(r, what) ==
  [r EXCEPT !.err = what,
            !.res = IF r.kind = "engine" THEN ThrewResult ELSE r.res,
            !.pc = IF r.kind = "engine" THEN "done" ELSE "catch"]

\* The scenario monitor: 1 = the INSERT of row 1 into a store that never held
\* a row, 2 = the DB update of that row after the insert succeeded, 3 = the
\* replay of that update.
ScenStart(kind, inp) ==
  IF kind # "engine" THEN 0
  ELSE IF /\ nextId = 1
          /\ inp.operation = "INSERT" /\ inp.rowId = 1
          /\ Keys(inp.changes) = {"name"} /\ inp.changes.name = "A"
       THEN 1
  ELSE IF /\ scen = 1
          /\ inp.operation = "UPDATE" /\ inp.rowId = 1 /\ inp.source = "DB"
          /\ inp.version # 0
          /\ Keys(inp.changes) = {"name"} /\ inp.changes.name = "B"
          /\ inp.timestamp # NoTime /\ users[1] # NoRec
          /\ inp.timestamp > users[1].updated_at
       THEN 2
  ELSE 0

Begin(p, kind, inp, replay) ==
  /\ started' = started + 1
  /\ req' = [req EXCEPT ![p] =
       [IdleReq EXCEPT
          !.kind = kind, !.inp = inp, !.serial = started + 1,
          !.pc = IF kind = "engine" THEN "read" ELSE "recv",
          !.ev = IF kind = "engine" THEN inp ELSE NoEvent,
          !.rep = replay,
          !.res1 = IF replay THEN req[p].res ELSE NoResult,
          !.u0 = users, !.c0 = conflictLog]]
  /\ UNCHANGED <<users, nextId, conflictLog, audit, now, updates, faults,
                 change_log>>

\* A new request arrives in a free slot.
Start(p, kind, inp) ==
  /\ req[p].pc = "idle"
  /\ Begin(p, kind, inp, FALSE)
  /\ scen' = ScenStart(kind, inp)

\* The sender delivers the request of a finished slot once more.
Replay(p) ==
  /\ req[p].pc = "done"
  /\ started < MaxEvents
  /\ Begin(p, req[p].kind, req[p].inp, TRUE)
  /\ scen' = IF scen = 2 /\ req[p].res.status # "threw" THEN 3 ELSE 0

\* The request is over and its slot is free again.
Reap(p) ==
  /\ req[p].pc \in {"done", "hung"}
  /\ req' = [req EXCEPT ![p] = IdleReq]
  /\ scen' = IF scen = 1 /\ req[p].res.status = "success" THEN 1 ELSE 0
  /\ UNCHANGED <<users, nextId, conflictLog, audit, now, started, updates, faults,
                 change_log>>

AuditRow(r, status, error) ==
  [req |-> r.serial, status |-> status, error_message |-> error]

Normalize(r, clock) ==
  IF r.kind = "sheet" THEN parseSheetEvent(r.inp, clock)
  ELSE parseDbEvent(r.inp, clock)

\* A rejected payload that is answered as a success.
RejectedQuietly(r) == [r EXCEPT !.pc = "done", !.http = 200]

\* if (!syncEvent) return res.status(400).json({ error: 'Invalid payload' })
Rejected(r) ==
  [r EXCEPT !.pc = "done", !.http = 400,
            !.body = ErrorBody("Invalid payload", Absent)]

\* await logWebhookAudit(payload, 'RECEIVED'), then the normalizer; a rejected
\* payload is answered 400 at once.
AuditReceived(p) ==
  /\ req[p].pc = "recv"
  /\ \E ok \in Oks :
       IF ok
       THEN /\ audit' = InsertInto(audit, AuditRow(req[p], "RECEIVED", ""))
            /\ \E t \in now..MaxTime :
                 /\ now' = t
                 /\ LET e == Normalize(req[p], t) IN
                    req' = [req EXCEPT ![p] =
                      IF e = NoEvent
                      THEN Rejected(req[p])
                      ELSE [req[p] EXCEPT !.pc = "read", !.ev = e]]
       ELSE /\ audit' = audit
            /\ now' = now
            /\ req' = [req EXCEPT ![p] = Thrown(req[p], "audit")]
  /\ UNCHANGED <<users, nextId, conflictLog, started, updates, scen, faults,
                 change_log>>

\* An upsert: any event creates the missing row.
InsertsAlways(event) == TRUE

\* if (!currentRecord): only an INSERT creates the row.
InsertsWhenMissing(event) == event.operation = "INSERT"

\* The decision with the loopback check ahead of the stale check.
DecideLoopbackFirst(r, rec) ==
  LET e == r.ev
      withCur == [r EXCEPT !.cur = rec]
      conflicts == detectConflict(rec, e)
  IN
  IF rec = NoRec
  THEN IF InsertsWhenMissing(e)
       THEN [withCur EXCEPT !.pc = "insert"]
       ELSE Returned(withCur, Failed("Record not found"))
  ELSE IF shouldIgnoreLoopback(rec, e.source)
  THEN Returned(withCur, Ignored("loopback"))
  ELSE IF isStaleUpdate(rec, e)
  THEN Returned(withCur, Ignored("stale_version"))
  ELSE IF conflicts # {}
  THEN [withCur EXCEPT
          !.pc = "logconf",
          !.changes = resolvedChanges(rec, e, conflicts),
          !.todo = ConflictSeq(conflicts)]
  ELSE [withCur EXCEPT !.pc = "apply", !.changes = e.changes]

\* processSyncEvent from its getRecord to its first write: the decision.
Decide(r, rec) ==
  LET e == r.ev
      withCur == [r EXCEPT !.cur = rec]
      conflicts == detectConflict(rec, e)
  IN
  IF rec = NoRec
  THEN IF InsertsWhenMissing(e)
       THEN [withCur EXCEPT !.pc = "insert"]
       ELSE Returned(withCur, Failed("Record not found"))
  ELSE IF isStaleUpdate(rec, e)
  THEN Returned(withCur, Ignored("stale_version"))
  ELSE IF shouldIgnoreLoopback(rec, e.source)
  THEN Returned(withCur, Ignored("loopback"))
  ELSE IF conflicts # {}
  THEN [withCur EXCEPT
          !.pc = "logconf",
          !.changes = resolvedChanges(rec, e, conflicts),
          !.todo = ConflictSeq(conflicts)]
  ELSE [withCur EXCEPT !.pc = "apply", !.changes = e.changes]

Read(p) ==
  /\ req[p].pc = "read"
  /\ \E ok \in Oks :
       req' = [req EXCEPT ![p] =
         IF ok THEN Decide(req[p], getRecord(users, req[p].ev.rowId))
         ELSE Thrown(req[p], "read")]
  /\ UNCHANGED <<users, nextId, conflictLog, audit, now, started, updates, scen, faults,
                 change_log>>

\* One more statement sent to the users table by the request (history).
Tried(r) == [r EXCEPT !.tries = @ + 1]

\* insertRecord: the row gets the next AUTO_INCREMENT id, whatever rowId the
\* event names, unless the changes themselves give the id column.  An empty
\* changes object makes the statement a syntax error, a key that is no column
\* an unknown-column error, an id another row has a duplicate-key error.
Insert(p) ==
  /\ req[p].pc = "insert"
  /\ \E ok \in Oks, t \in now..MaxTime :
       LET row == InsertedRow(req[p].ev, t)
           at == MovedTo(nextId, req[p].ev.changes)
           table == [users EXCEPT ![at] = row]
       IN
       IF /\ ok
          /\ (Keys(req[p].ev.changes) # {} \/ NewId(req[p].ev.changes) # 0)
          /\ UnknownKeys(req[p].ev.changes) = {}
          /\ users[at] = NoRec
          /\ UniqueEmail(table)
       THEN /\ users' = table
            /\ now' = t
            /\ nextId' = IF at >= nextId THEN at + 1 ELSE nextId
            /\ updates' = [updates EXCEPT ![at] = 0]
            /\ req' = [req EXCEPT ![p] =
                 Returned(Tried(req[p]), Success("INSERT", at, 1))]
       ELSE /\ req' = [req EXCEPT ![p] = Thrown(Tried(req[p]), "insert")]
            /\ UNCHANGED <<users, nextId, updates, now>>
  /\ UNCHANGED <<conflictLog, audit, started, scen, faults,
                 change_log>>

\* logConflict: one INSERT INTO sync_conflicts per conflicting field.
LogConflict(p) ==
  /\ req[p].pc = "logconf"
  /\ LET r == req[p] IN
     \E ok \in Oks :
       IF ok
       THEN /\ conflictLog' = InsertInto(conflictLog,
                 ConflictRow(r.ev.rowId, r.cur, r.ev, r.changes, Head(r.todo)))
            /\ req' = [req EXCEPT ![p] =
                 [r EXCEPT !.todo = Tail(r.todo),
                           !.pc = IF Len(r.todo) = 1 THEN "apply" ELSE "logconf"]]
       ELSE /\ conflictLog' = conflictLog
            /\ req' = [req EXCEPT ![p] = Thrown(req[p], "conflict")]
  /\ UNCHANGED <<users, nextId, audit, now, started, updates, scen, faults,
                 change_log>>

\* applyUpdate.  An UPDATE with an empty changes object is the statement
\* "SET , source = ?": a syntax error; a key that is no column is an
\* unknown-column error.
Apply(p) ==
  /\ req[p].pc = "apply"
  /\ LET r == Tried(req[p])
         id == r.ev.rowId
     IN
     CASE r.ev.operation = "UPDATE" ->
            \E ok \in Oks, t \in now..MaxTime :
              LET table == UpdatedTable(users, id, r.cur, r.ev.source, r.changes, t) IN
              IF /\ ok
                 /\ (Keys(r.changes) # {} \/ NewId(r.changes) # 0)
                 /\ UnknownKeys(r.changes) = {}
                 /\ PrimaryKeyFree(users, id, r.changes)
                 /\ UniqueEmail(table)
              THEN /\ users' = table
                   /\ now' = t
                   /\ updates' =
                        IF users[id] = NoRec THEN updates
                        ELSE [[updates EXCEPT ![id] = 0] EXCEPT
                                ![MovedTo(id, r.changes)] = updates[id] + 1]
                   /\ req' = [req EXCEPT ![p] =
                        Returned([r EXCEPT !.lost = (users[id].version # r.cur.version)],
                                 Success("UPDATE", id, NextVersion(r.cur)))]
              ELSE /\ req' = [req EXCEPT ![p] = Thrown(r, "update")]
                   /\ UNCHANGED <<users, updates, now>>
       [] r.ev.operation = "DELETE" ->
            /\ \E ok \in Oks :
              IF ok
              THEN /\ users' = [users EXCEPT ![id] = NoRec]
                   /\ updates' = [updates EXCEPT ![id] = 0]
                   /\ req' = [req EXCEPT ![p] =
                        Returned(r, Success("DELETE", id, 0))]
              ELSE /\ req' = [req EXCEPT ![p] = Thrown(r, "delete")]
                   /\ UNCHANGED <<users, updates>>
            /\ now' = now
       [] OTHER ->
            /\ req' = [req EXCEPT ![p] =
                 Returned(req[p], Failed("Unknown operation"))]
            /\ UNCHANGED <<users, updates, now>>
  /\ UNCHANGED <<nextId, conflictLog, audit, started, scen, faults,
                 change_log>>

\* await logWebhookAudit(payload, 'PROCESSED'); res.json(...)
AuditProcessed(p) ==
  /\ req[p].pc = "procd"
  /\ \E ok \in Oks :
       IF ok
       THEN /\ audit' = InsertInto(audit, AuditRow(req[p], "PROCESSED", ""))
            /\ req' = [req EXCEPT ![p] = [req[p] EXCEPT !.pc = "done", !.http = 200]]
       ELSE /\ audit' = audit
            /\ req' = [req EXCEPT ![p] = Thrown(req[p], "audit")]
  /\ UNCHANGED <<users, nextId, conflictLog, now, started, updates, scen, faults,
                 change_log>>

\* res.status(500).json({ error: 'Failed to process webhook',
\*                        message: error.message })
FailureBody(message) == ErrorBody("Failed to process webhook", message)

\* catch (error): await logWebhookAudit(req.body, 'ERROR', error); 500.  When
\* this audit write throws too, the handler's promise rejects: depending on
\* the framework version the request is never answered, or the rejection
\* reaches the error middleware, which answers 500.
Catch(p) ==
  /\ req[p].pc = "catch"
  /\ \E ok \in Oks :
       IF ok
       THEN /\ audit' = InsertInto(audit, AuditRow(req[p], "ERROR", req[p].err))
            /\ req' = [req EXCEPT ![p] =
                 [req[p] EXCEPT !.pc = "done", !.http = 500,
                                !.body = FailureBody(req[p].err)]]
       ELSE /\ audit' = audit
            /\ \E answered \in BOOLEAN :
                 req' = [req EXCEPT ![p] =
                   IF answered
                   THEN [req[p] EXCEPT
                           !.pc = "done", !.http = 500,
                           !.body = ErrorBody("Internal server error", "audit")]
                   ELSE [req[p] EXCEPT !.pc = "hung"]]
  /\ UNCHANGED <<users, nextId, conflictLog, now, started, updates, scen, faults,
                 change_log>>

\* The engine's own steps, and a webhook's steps around them.
EngineStep(p) ==
  \/ Read(p)
  \/ Insert(p)
  \/ LogConflict(p)
  \/ Apply(p)

HookStep(p) ==
  \/ AuditReceived(p)
  \/ AuditProcessed(p)
  \/ Catch(p)

CanStart(p) == req[p].pc = "idle" /\ started < MaxEvents

\* One request at a time: every request runs in the first slot.
Solo == {1}

\* Direct calls of processSyncEvent, one at a time.
Next ==
  \E p \in Solo :
       \/ CanStart(p) /\ \E inp \in EngineEvents : Start(p, "engine", inp)
       \/ Replay(p)
       \/ Reap(p)
       \/ EngineStep(p)

Spec == Init /\ [][Next]_vars

\* Webhook requests, one at a time.
NextHook ==
  \E p \in Solo :
       \/ CanStart(p) /\ \E inp \in SheetPayloads : Start(p, "sheet", inp)
       \/ CanStart(p) /\ \E inp \in DbPayloads : Start(p, "db", inp)
       \/ Replay(p)
       \/ Reap(p)
       \/ EngineStep(p)
       \/ HookStep(p)

SpecHook == Init /\ [][NextHook]_vars

\* Webhook requests, one at a time, over a store that may fail.
NextFaulty ==
  \E p \in Solo :
       \/ /\ CanStart(p) /\ started < FaultyCalls
          /\ \E inp \in SheetPayloads : Start(p, "sheet", inp)
       \/ /\ CanStart(p) /\ started < FaultyCalls
          /\ \E inp \in DbPayloads : Start(p, "db", inp)
       \/ Reap(p)
       \/ EngineStep(p)
       \/ HookStep(p)

SpecFaulty == InitFaulty /\ [][NextFaulty]_vars

\* The same requests when the event loop runs every continuation that is
\* ready and the store settles every statement, with a result or an error.
SpecFaultyFair == SpecFaulty /\ WF_vars(NextFaulty)

\* Webhook requests in flight together, over a store that already holds the
\* row a first INSERT {name: "A"} creates.
SeededStore ==
  /\ users = [i \in Ids |->
       IF i = 1
       THEN [name |-> "A", email |-> Unset, salary |-> Unset, version |-> 1,
             source |-> "SHEET", updated_at |-> 0]
       ELSE NoRec]
  /\ nextId = 2
  /\ conflictLog = <<>>
  /\ change_log = <<>>
  /\ audit = <<>>
  /\ now = 0
  /\ req = [p \in Reqs |-> IdleReq]
  /\ started = 0
  /\ updates = [i \in Ids |-> 0]
  /\ scen = 0
  /\ faults = FALSE

\* The webhooks that race: edits of the name cell of row 1 and well-formed DB
\* updates of the name of row 1.
ConcSheetPayloads ==
  {w \in SheetPayloads : w.row = 1 /\ w.column = 2 /\ w.sheetName = "Data"}
ConcDbPayloads ==
  {w \in DbPayloads : /\ w.tableId = "users" /\ w.rowId = 1
                      /\ w.operation = "UPDATE"
                      /\ w.changes # NoChanges
                      /\ Keys(w.changes) = {"name"}}

NextConc ==
  \E p \in Reqs :
    \/ CanStart(p) /\ \E inp \in ConcSheetPayloads : Start(p, "sheet", inp)
    \/ CanStart(p) /\ \E inp \in ConcDbPayloads : Start(p, "db", inp)
    \/ Reap(p)
    \/ AuditReceived(p)
    \/ Read(p)
    \/ LogConflict(p)
    \/ Apply(p)
    \/ AuditProcessed(p)

SpecConc == SeededStore /\ [][NextConc]_vars

\* Direct calls, one at a time, with events that change several fields at
\* once, over a store that already holds the row a first INSERT
\* {name: "A", salary: "A"} creates.  An event carries no version, the lowest
\* or the highest one, and no timestamp, the earliest or the latest one.
ManyFields == {"name", "salary"}
ManyChanges ==
  {[f \in Fields |-> IF f \in ManyFields THEN c[f] ELSE Absent] :
     c \in [ManyFields -> Values \cup {Absent}]}
ManyEvents ==
  [source : Sources, rowId : {1}, tableId : {"users"},
   operation : Operations, timestamp : {NoTime, 0, MaxTime},
   version : {0, 1, MaxVersion}, changes : ManyChanges]

SeededMany ==
  /\ users = [i \in Ids |->
       IF i = 1
       THEN [name |-> "A", email |-> Unset, salary |-> "A", version |-> 1,
             source |-> "SHEET", updated_at |-> 0]
       ELSE NoRec]
  /\ nextId = 2
  /\ conflictLog = <<>>
  /\ change_log = <<>>
  /\ audit = <<>>
  /\ now = 0
  /\ req = [p \in Reqs |-> IdleReq]
  /\ started = 0
  /\ updates = [i \in Ids |-> 0]
  /\ scen = 0
  /\ faults = FALSE

NextMany ==
  \E p \in Solo :
    \/ /\ CanStart(p) /\ started < ManyCalls
       /\ \E inp \in ManyEvents : Start(p, "engine", inp)
    \/ Reap(p)
    \/ Read(p)
    \/ LogConflict(p)
    \/ Apply(p)

SpecMany == SeededMany /\ [][NextMany]_vars

\* The same calls when every pending continuation of the event loop is run in
\* the end: a call that can take a step takes it.
SpecManyFair == SpecMany /\ WF_vars(NextMany)

\* Webhook requests, one at a time, that set the email column, over a store
\* that already holds two rows with different emails.
EmailChanges ==
  {[f \in Fields |-> IF f = "email" THEN v ELSE Absent] : v \in Values}
EmailSheetPayloads ==
  {w \in SheetPayloads : w.row # 0 /\ w.column = 3 /\ w.sheetName = "Data"}
EmailDbPayloads ==
  [tableId : {"users"}, rowId : 1..NumRows, operation : Operations,
   changes : EmailChanges, version : {Missing} \cup 1..MaxVersion]

SeededEmails ==
  /\ users = [i \in Ids |->
       IF i \in {1, 2}
       THEN [name |-> "A", email |-> IF i = 1 THEN "A" ELSE "B",
             salary |-> Unset, version |-> 1, source |-> "SHEET",
             updated_at |-> 0]
       ELSE NoRec]
  /\ nextId = 3
  /\ conflictLog = <<>>
  /\ change_log = <<>>
  /\ audit = <<>>
  /\ now = 0
  /\ req = [p \in Reqs |-> IdleReq]
  /\ started = 0
  /\ updates = [i \in Ids |-> 0]
  /\ scen = 0
  /\ faults = FALSE

NextEmail ==
  \E p \in Solo :
    \/ CanStart(p) /\ \E inp \in EmailSheetPayloads : Start(p, "sheet", inp)
    \/ CanStart(p) /\ \E inp \in EmailDbPayloads : Start(p, "db", inp)
    \/ Reap(p)
    \/ EngineStep(p)
    \/ HookStep(p)

SpecEmail == SeededEmails /\ [][NextEmail]_vars

\* DB webhooks, one at a time, whose changes may hold a key that is no column
\* of users, over a store that already holds row 1.
ExtraKey == "nickname"
LooseChanges ==
  {[k \in Fields \cup {ExtraKey} |->
      IF k = "name" THEN c[1] ELSE IF k = ExtraKey THEN c[2] ELSE Absent] :
     c \in (Values \cup {Absent}) \X (Values \cup {Absent})}
LooseDbPayloads ==
  [tableId : {"users"}, rowId : 1..NumRows, operation : Operations,
   changes : LooseChanges, version : {Missing} \cup 1..MaxVersion]

NextLoose ==
  \E p \in Solo :
    \/ CanStart(p) /\ \E inp \in LooseDbPayloads : Start(p, "db", inp)
    \/ Reap(p)
    \/ EngineStep(p)
    \/ HookStep(p)

SpecLoose == SeededStore /\ [][NextLoose]_vars

\* DB webhooks, one at a time, whose changes may name the id column next to
\* the name, over a store that already holds row 1.
IdChanges ==
  {[k \in Fields \cup {"id"} |->
      IF k = "name" THEN c[1] ELSE IF k = "id" THEN c[2] ELSE Absent] :
     c \in (Values \cup {Absent}) \X (0..NumRows)}
IdDbPayloads ==
  [tableId : {"users"}, rowId : 1..NumRows, operation : Operations,
   changes : IdChanges, version : {Missing} \cup 1..MaxVersion]

NextIdent ==
  \E p \in Solo :
    \/ CanStart(p) /\ \E inp \in IdDbPayloads : Start(p, "db", inp)
    \/ Reap(p)
    \/ EngineStep(p)
    \/ HookStep(p)

SpecIdent == SeededStore /\ [][NextIdent]_vars

\* DB webhooks, one at a time, with and without the changes key, over a store
\* that already holds row 1.
BareDbPayloads ==
  [tableId : {"users"}, rowId : 1..NumRows, operation : Operations,
   changes : {NoChanges} \cup ChangeSets, version : {Missing} \cup 1..MaxVersion]

NextBare ==
  \E p \in Solo :
    \/ CanStart(p) /\ \E inp \in BareDbPayloads : Start(p, "db", inp)
    \/ Reap(p)
    \/ EngineStep(p)
    \/ HookStep(p)

SpecBare == SeededStore /\ [][NextBare]_vars

\* ------------------------------------------------------------------ claims
\* processSyncEvent has returned a result to request p (it did not throw).
Settled(p) == req[p].res.status \notin {"none", "threw"}

\* A direct call of processSyncEvent that has returned.
Called(p) == req[p].kind = "engine" /\ Settled(p)

\* The row the request's event names, as it was when the request began.
Before(p) == req[p].u0[req[p].ev.rowId]

Quoted(v) == "\"" \o v \o "\""

\* C1: an UPDATE event with a version that was applied and is processed again
\* at once is ignored as stale_version, and the row's fields stay as the
\* first call left them.
C1_ReplayIsStale ==
  \A p \in Reqs :
    (/\ Called(p) /\ req[p].rep
     /\ req[p].ev.operation = "UPDATE" /\ req[p].ev.version # 0
     /\ req[p].res1.status = "success")
    => /\ req[p].res.status = "ignored"
       /\ req[p].res.reason = "stale_version"
       /\ users[req[p].ev.rowId] # NoRec
       /\ \A f \in Fields : users[req[p].ev.rowId][f] = Before(p)[f]

\* C2: on a row whose source is SHEET, an event with a higher version and
\* source SHEET is ignored as loopback and changes nothing; the same UPDATE
\* event with source DB is applied: source becomes DB, version goes up by 1.
C2_LoopPrevention ==
  \A p \in Reqs :
    (/\ Called(p) /\ Before(p) # NoRec
     /\ Before(p).source = "SHEET" /\ req[p].ev.version > Before(p).version)
    => /\ req[p].ev.source = "SHEET"
          => /\ req[p].res.status = "ignored"
             /\ req[p].res.reason = "loopback"
             /\ users = req[p].u0
             /\ conflictLog = req[p].c0
       /\ (req[p].ev.source = "DB" /\ req[p].ev.operation = "UPDATE")
          => /\ req[p].res.status = "success"
             /\ users[req[p].ev.rowId] # NoRec
             /\ users[req[p].ev.rowId].source = "DB"
             /\ users[req[p].ev.rowId].version = Before(p).version + 1

C2_Witness ==
  \E p \in Reqs :
    /\ Called(p) /\ Before(p) # NoRec
    /\ Before(p).source = "SHEET" /\ req[p].ev.version > Before(p).version
    /\ req[p].ev.source = "SHEET" /\ req[p].res.reason = "loopback"

\* The fields of the request's changes whose value differed from the stored one.
Differing(p) ==
  {f \in Fields : req[p].ev.changes[f] # Absent
                    /\ req[p].ev.changes[f] # Before(p)[f]}

\* C3: an applied UPDATE with timestamp T2 that proposes a different value n
\* for a field of a row with value c and updated_at T1 leaves n when T2 > T1
\* and c when T2 <= T1, and writes one Conflict Record per such field with
\* the resolved value.
C3_LastWriteWins ==
  \A p \in Reqs :
    (/\ Called(p) /\ req[p].res.status = "success"
     /\ req[p].res.operation = "UPDATE" /\ req[p].ev.timestamp # NoTime
     /\ Differing(p) # {})
    => /\ \A f \in Differing(p) :
            /\ users[req[p].ev.rowId][f] =
                 IF req[p].ev.timestamp > Before(p).updated_at
                 THEN req[p].ev.changes[f] ELSE Before(p)[f]
            /\ \E i \in (Len(req[p].c0) + 1)..Len(conflictLog) :
                 /\ conflictLog[i].row_id = req[p].ev.rowId
                 /\ conflictLog[i].sheet_value = Quoted(req[p].ev.changes[f])
                 /\ conflictLog[i].db_value = Quoted(Before(p)[f])
                 /\ conflictLog[i].resolved_value =
                      Quoted(users[req[p].ev.rowId][f])
       /\ Len(conflictLog) = Len(req[p].c0) + Cardinality(Differing(p))

\* The tie: an equal timestamp keeps the current value.
C3_Witness ==
  \E p \in Reqs :
    /\ Called(p) /\ req[p].res.status = "success"
    /\ req[p].res.operation = "UPDATE" /\ Differing(p) # {}
    /\ req[p].ev.timestamp = Before(p).updated_at
    /\ Len(conflictLog) = Len(req[p].c0) + 1

\* C4: with webhooks one at a time, a row has version 1 + N after N applied
\* UPDATE events, and an ignored or not-found event leaves the store as it was.
C4_VersionCount ==
  /\ \A i \in Ids : users[i] # NoRec => users[i].version = 1 + updates[i]
  /\ \A p \in Reqs :
       (Settled(p) /\ (req[p].res.status = "ignored"
                       \/ req[p].res.error = "Record not found"))
       => users = req[p].u0

C4_Witness == \E i \in Ids : users[i] # NoRec /\ updates[i] = 2

\* The end-to-end scenario, for an UPDATE event that carries version v: what
\* holds when the scenario's first, second and third call have returned.
ScenarioHolds(p, v) ==
  /\ (scen = 1)
       => /\ req[p].res.status = "success" /\ req[p].res.operation = "INSERT"
          /\ users[1] # NoRec
          /\ users[1].version = 1 /\ users[1].source = "SHEET"
          /\ users[1].name = "A"
  /\ (scen = 2 /\ req[p].ev.version = v)
       => /\ req[p].res.status = "success"
          /\ users[1] # NoRec
          /\ users[1].version = 2 /\ users[1].source = "DB"
          /\ users[1].name = "B"
  /\ (scen = 3 /\ req[p].ev.version = v)
       => /\ req[p].res.status = "ignored"
          /\ req[p].res.reason = "stale_version"
          /\ users = req[p].u0

C8_SheetRejects ==
  \A p \in Reqs :
    (/\ req[p].kind = "sheet" /\ req[p].pc \notin {"recv", "catch", "hung"}
     /\ (req[p].inp.column \notin {2, 3, 4} \/ req[p].inp.row = 1))
    => /\ req[p].ev = NoEvent
       /\ req[p].pc = "done"
       /\ req[p].http = 400

\* C9: an INSERT for an unknown row creates a record with the event's source
\* and version 1.
C9_InsertKeepsSource ==
  \A p \in Reqs :
    (Called(p) /\ req[p].res.operation = "INSERT")
    => /\ users[req[p].res.rowId] # NoRec
       /\ users[req[p].res.rowId].source = req[p].ev.source
       /\ users[req[p].res.rowId].version = 1

\* C10: an event other than INSERT for a row that does not exist returns
\* 'Record not found' and leaves the records and the conflict log as they were.
C10_NotFoundWritesNothing ==
  \A p \in Reqs :
    (Called(p) /\ Before(p) = NoRec /\ req[p].ev.operation # "INSERT")
    => /\ req[p].res.error = "Record not found"
       /\ req[p].res.status = Absent
       /\ users = req[p].u0
       /\ conflictLog = req[p].c0

C10_Witness ==
  \E p \in Reqs :
    /\ Called(p) /\ Before(p) = NoRec /\ req[p].ev.operation = "DELETE"
    /\ req[p].res.error = "Record not found"

\* The request's event carries a version that is not above the stored one.
StaleFor(p) ==
  /\ Before(p) # NoRec
  /\ req[p].ev.version # 0
  /\ req[p].ev.version <= Before(p).version

\* C11: an event for an existing record whose version is present and <= the
\* record's version is ignored as stale_version and leaves the records and the
\* conflict log as they were, whatever its operation and source.
C11_StaleNoEffect ==
  \A p \in Reqs :
    (Called(p) /\ StaleFor(p))
    => /\ req[p].res.status = "ignored"
       /\ req[p].res.reason = "stale_version"
       /\ users = req[p].u0
       /\ conflictLog = req[p].c0

\* A stale DELETE from a source other than the one that wrote the row.
C11_Witness ==
  \E p \in Reqs :
    /\ Called(p) /\ StaleFor(p)
    /\ req[p].ev.operation = "DELETE"
    /\ req[p].ev.source # Before(p).source
    /\ req[p].res.reason = "stale_version"

\* The event of request p got past the stale and the loopback check.
Passed(p) ==
  /\ Before(p) # NoRec
  /\ ~StaleFor(p)
  /\ ~(Before(p).source = req[p].ev.source /\ req[p].ev.source # "MANUAL")

\* The Conflict Records written since request p began.
Logged(p) == SubSeq(conflictLog, Len(req[p].c0) + 1, Len(conflictLog))

\* The value last-write-wins leaves in field f.
Winner(p, f) ==
  IF req[p].ev.timestamp # NoTime
       /\ req[p].ev.timestamp > Before(p).updated_at
  THEN req[p].ev.changes[f] ELSE Before(p)[f]

\* Conflict Record c is the one of field f of request p.
RecordOf(p, f, c) ==
  /\ c.row_id = req[p].ev.rowId
  /\ c.sheet_value = Quoted(req[p].ev.changes[f])
  /\ c.db_value = Quoted(Before(p)[f])
  /\ c.resolved_value = Quoted(Winner(p, f))
  /\ c.resolution_strategy = "last_write_wins"

\* C12: an event for an existing record that passes the stale and loopback
\* checks appends exactly one Conflict Record per field of its changes whose
\* value differs from the stored one and none for the others, each with the
\* incoming, current and resolved value and the strategy last_write_wins.
C12_OneRecordPerConflict ==
  \A p \in Reqs :
    (Called(p) /\ Passed(p))
    => /\ Len(conflictLog) = Len(req[p].c0) + Cardinality(Differing(p))
       /\ SubSeq(conflictLog, 1, Len(req[p].c0)) = req[p].c0
       /\ \A f \in Differing(p) :
            \E i \in 1..Len(Logged(p)) : RecordOf(p, f, Logged(p)[i])
       /\ \A i \in 1..Len(Logged(p)) :
            \E f \in Differing(p) : RecordOf(p, f, Logged(p)[i])

\* One field differs and is logged, another is equal and is not.
C12_Witness ==
  \E p \in Reqs :
    /\ Called(p) /\ Passed(p)
    /\ Differing(p) = {"salary"}
    /\ req[p].ev.changes.name = Before(p).name
    /\ Len(Logged(p)) = 1
    /\ RecordOf(p, "salary", Logged(p)[1])

\* Request p is a direct call that applied an UPDATE.
AppliedUpdate(p) ==
  /\ Called(p)
  /\ req[p].res.status = "success"
  /\ req[p].res.operation = "UPDATE"

\* C13: an applied UPDATE leaves each field of its changes at the resolved
\* value (the incoming one where nothing conflicts), the source at the event's
\* source, the version at the version read + 1, and every business field the
\* changes do not name at its prior value.
C13_AppliedUpdate ==
  \A p \in Reqs :
    AppliedUpdate(p)
    => LET id == req[p].ev.rowId IN
       /\ users[id] # NoRec
       /\ \A f \in Fields :
            users[id][f] =
              IF req[p].ev.changes[f] = Absent THEN Before(p)[f]
              ELSE IF f \in Differing(p) THEN Winner(p, f)
              ELSE req[p].ev.changes[f]
       /\ users[id].source = req[p].ev.source
       /\ users[id].version = Before(p).version + 1
       /\ req[p].res.newVersion = Before(p).version + 1

\* The name changes to the incoming value and the salary, not named, stays.
C13_Witness ==
  \E p \in Reqs :
    /\ AppliedUpdate(p)
    /\ Keys(req[p].ev.changes) = {"name"}
    /\ users[1].name = req[p].ev.changes.name
    /\ users[1].name # Before(p).name
    /\ users[1].salary = "A"
    /\ users[1].source # Before(p).source

\* Request p is a direct call with a DELETE event for a row that exists.
DeleteOfExisting(p) ==
  /\ Called(p)
  /\ req[p].ev.operation = "DELETE"
  /\ Before(p) # NoRec

\* C14: a DELETE for an existing record that passes the stale and loopback
\* checks removes the record, with or without conflicting changes and whoever
\* wins them; a stale or loopback DELETE leaves the record in place.
C14_DeleteUnconditional ==
  \A p \in Reqs :
    DeleteOfExisting(p)
    => IF Passed(p)
       THEN /\ users[req[p].ev.rowId] = NoRec
            /\ req[p].res.status = "success"
            /\ req[p].res.operation = "DELETE"
       ELSE /\ users = req[p].u0
            /\ req[p].res.status = "ignored"

\* A DELETE whose changes conflict and lose (the current value wins).
C14_Witness ==
  \E p \in Reqs :
    /\ DeleteOfExisting(p) /\ Passed(p)
    /\ Differing(p) # {}
    /\ \A f \in Differing(p) : Winner(p, f) = Before(p)[f]
    /\ Len(Logged(p)) > 0
    /\ users[req[p].ev.rowId] = NoRec

\* Request p is a webhook that has been answered.
Answered(p) == req[p].kind \in {"sheet", "db"} /\ req[p].pc = "done"

\* The audit entries of request p, in the order they were written.
Trail(p) == SelectSeq(audit, LAMBDA a : a.req = req[p].serial)

\* C15: every webhook request that completes has a RECEIVED audit entry
\* followed by exactly one terminal entry, PROCESSED or ERROR, whatever its
\* outcome, a rejected payload included.
C15_AuditPair ==
  \A p \in Reqs :
    Answered(p)
    => /\ Len(Trail(p)) = 2
       /\ Trail(p)[1].status = "RECEIVED"
       /\ Trail(p)[2].status \in {"PROCESSED", "ERROR"}

\* Log t holds the rows of log s, unchanged and in place, and maybe more.
Extends(t, s) == Len(s) <= Len(t) /\ SubSeq(t, 1, Len(s)) = s

\* C16: in every step the conflict log and the webhook audit log extend their
\* previous values: no Conflict Record or Webhook Audit Entry is ever modified
\* or removed.
C16_AppendOnly ==
  [][Extends(conflictLog', conflictLog) /\ Extends(audit', audit)]_vars

\* Both logs hold rows, and a request has failed since.
C16_Witness ==
  /\ Len(conflictLog) > 0
  /\ Len(audit) > 2
  /\ \E i \in 1..Len(audit) : audit[i].status = "ERROR"

\* Request p is a DB webhook whose payload the normalizer has seen.
DbParsed(p) == req[p].kind = "db" /\ req[p].pc \notin {"idle", "recv"}

\* The payload of request p holds tableId, rowId and operation.
DbComplete(p) ==
  /\ req[p].inp.tableId # ""
  /\ req[p].inp.rowId # Missing
  /\ req[p].inp.operation # ""

\* C17: parseDbEvent returns a Sync Event with source DB exactly when tableId,
\* rowId and operation are all present, and otherwise rejects; in the event,
\* changes is the empty mapping when absent, version is 1 when absent, and a
\* supplied version is passed through unchanged.
C17_DbNormalizer ==
  \A p \in Reqs :
    DbParsed(p)
    => IF DbComplete(p)
       THEN /\ req[p].ev # NoEvent
            /\ req[p].ev.source = "DB"
            /\ req[p].ev.tableId = req[p].inp.tableId
            /\ req[p].ev.rowId = req[p].inp.rowId
            /\ req[p].ev.operation = req[p].inp.operation
            /\ req[p].ev.changes =
                 IF req[p].inp.changes = NoChanges
                 THEN [f \in Fields |-> Absent] ELSE req[p].inp.changes
            /\ req[p].ev.version =
                 IF req[p].inp.version = Missing THEN 1
                 ELSE req[p].inp.version
       ELSE /\ req[p].ev = NoEvent
            /\ req[p].http = 400

\* Request p is a webhook whose payload the normalizer has seen.
Parsed(p) ==
  /\ req[p].kind \in {"sheet", "db"}
  /\ req[p].pc \notin {"idle", "recv"}

\* C18: with the store available, a webhook whose payload the normalizer
\* rejects is answered 400 and leaves the records and the conflict log as they
\* were; a webhook whose payload it accepts is never answered 400.
C18_RejectIs400 ==
  \A p \in Reqs :
    Parsed(p)
    => IF req[p].ev = NoEvent
       THEN /\ req[p].pc = "done"
            /\ req[p].http = 400
            /\ users = req[p].u0
            /\ conflictLog = req[p].c0
       ELSE req[p].http # 400

\* A rejected payload arrives at a store that holds a row.
C18_Witness ==
  \E p \in Reqs :
    /\ Answered(p) /\ req[p].ev = NoEvent /\ req[p].http = 400
    /\ \E i \in Ids : users[i] # NoRec

\* The event of webhook p is one of the expected outcomes: not found, stale,
\* loopback or conflicting.
Expected(p) ==
  /\ Parsed(p) /\ req[p].ev # NoEvent
  /\ IF Before(p) = NoRec THEN req[p].ev.operation # "INSERT"
     ELSE \/ StaleFor(p)
          \/ (Before(p).source = req[p].ev.source
                /\ req[p].ev.source # "MANUAL")
          \/ Differing(p) # {}

\* C19: with the store available, a stale, loopback, not-found or conflicting
\* event makes processSyncEvent return a result without throwing, and the
\* webhook is answered 200 with a PROCESSED audit entry and never an ERROR one.
C19_ExpectedAreValues ==
  \A p \in Reqs :
    Expected(p)
    => /\ req[p].pc \notin {"catch", "hung"}
       /\ req[p].err = ""
       /\ \A i \in 1..Len(Trail(p)) : Trail(p)[i].status # "ERROR"
       /\ req[p].pc = "done"
            => /\ Settled(p)
               /\ req[p].http = 200
               /\ Trail(p)[Len(Trail(p))].status = "PROCESSED"

\* A statement on the users table failed while request p applied its event,
\* and the request is over.
ApplyFailed(p) ==
  /\ req[p].kind \in {"sheet", "db"}
  /\ req[p].err \in {"insert", "update", "delete"}
  /\ req[p].pc \in {"done", "hung"}

\* C20: a store failure while applying an event is not retried (the request
\* makes one attempt at its write), the request's audit trail gets an ERROR
\* entry, and the caller is answered 500.
C20_ApplyFailure ==
  \A p \in Reqs :
    ApplyFailed(p)
    => /\ req[p].tries = 1
       /\ req[p].pc = "done"
       /\ req[p].http = 500
       /\ \E i \in 1..Len(Trail(p)) : Trail(p)[i].status = "ERROR"

\* The messages of the errors a store statement can throw.
InternalErrors == {"audit", "read", "insert", "conflict", "update", "delete"}

\* C21: the body of a 500 response does not depend on the internal error: it
\* carries the generic message and no text of the error.
C21_GenericBody ==
  \A p \in Reqs :
    req[p].http = 500
    => /\ req[p].body.error \notin InternalErrors
       /\ req[p].body.message \notin InternalErrors

\* Two states of the users table hold the same rows, but for updated_at.
SameRecords(t1, t2) ==
  \A i \in Ids :
    IF t1[i] = NoRec \/ t2[i] = NoRec THEN t1[i] = t2[i]
    ELSE /\ \A f \in Fields : t1[i][f] = t2[i][f]
         /\ t1[i].version = t2[i].version
         /\ t1[i].source = t2[i].source

\* Request p is a direct call that processed, right after it, the event of a
\* call that had returned.
Replayed(p) == Called(p) /\ req[p].rep /\ req[p].res1.status # "threw"

\* C22: every operation is idempotent: processing the same event again leaves
\* the record store as the first processing left it.
C22_Idempotent ==
  \A p \in Reqs : Replayed(p) => SameRecords(users, req[p].u0)

\* Request p is an answered DB webhook in the shape the dashboard sends: an
\* UPDATE of an existing row with changes and no version.
DashboardSave(p) ==
  /\ Answered(p) /\ req[p].kind = "db"
  /\ req[p].ev # NoEvent
  /\ req[p].inp.operation = "UPDATE"
  /\ req[p].inp.version = Missing
  /\ req[p].inp.changes # NoChanges
  /\ Keys(req[p].inp.changes) # {}
  /\ Before(p) # NoRec

\* C23: a DB UPDATE webhook without a version for an existing row whose last
\* source is not DB leaves the changed values stored in the row.
C23_DashboardSaveStored ==
  \A p \in Reqs :
    (DashboardSave(p) /\ Before(p).source # "DB" /\ Differing(p) # {})
    => /\ users[req[p].ev.rowId] # NoRec
       /\ \A f \in Differing(p) :
            users[req[p].ev.rowId][f] = req[p].inp.changes[f]

\* C24: the changes of every Sync Event handed to the engine hold only fields
\* of the entity schema (an unrecognized field of the payload is dropped before
\* processing), and such a field does not make the request fail.
C24_OnlySchemaFields ==
  \A p \in Reqs :
    (Parsed(p) /\ req[p].ev # NoEvent)
    => /\ UnknownKeys(req[p].ev.changes) = {}
       /\ (UnknownKeys(req[p].inp.changes) # {} /\ Keys(req[p].inp.changes) # {})
            => req[p].err # "update"


\* The webhook requests that have applied a mutation (insert, update or
\* delete) and have been answered.
Mutated(p) ==
  /\ Answered(p)
  /\ req[p].res.status = "success"

\* C25: every modification a webhook applies to a record is recorded in
\* change_log: the table holds at least as many entries as mutations applied.
C25_ChangeLogged ==
  Len(change_log) >= Cardinality({p \in Reqs : Mutated(p)})


\* The event of request p has the source that last wrote its row, and that
\* source is not MANUAL.
SameSource(p) ==
  /\ Before(p) # NoRec
  /\ Before(p).source = req[p].ev.source
  /\ req[p].ev.source # "MANUAL"

\* C26: the stale check comes before the loopback check and both before
\* conflict detection: an event that is both stale and same-source is reported
\* as stale_version, and an ignored event appends no Conflict Record.
C26_CheckOrder ==
  \A p \in Reqs :
    Called(p)
    => /\ (StaleFor(p) /\ SameSource(p))
          => /\ req[p].res.status = "ignored"
             /\ req[p].res.reason = "stale_version"
       /\ req[p].res.status = "ignored" => conflictLog = req[p].c0

\* A stale event from the row's own source that would conflict on a field.
C26_Witness ==
  \E p \in Reqs :
    /\ Called(p) /\ StaleFor(p) /\ SameSource(p)
    /\ Differing(p) # {}
    /\ req[p].res.reason = "stale_version"


\* Request p is a direct call that applied an UPDATE whose changes differed
\* from the stored row.
ResolvedUpdate(p) ==
  /\ Called(p) /\ req[p].res.status = "success"
  /\ req[p].res.operation = "UPDATE"
  /\ Before(p) # NoRec /\ users[req[p].ev.rowId] # NoRec
  /\ Differing(p) # {}

\* The conflicting fields that ended with the incoming value, and those that
\* ended with the current one.
TookIncoming(p) ==
  {f \in Differing(p) : users[req[p].ev.rowId][f] = req[p].ev.changes[f]}
KeptCurrent(p) ==
  {f \in Differing(p) : users[req[p].ev.rowId][f] = Before(p)[f]}

\* One event, partially accepted and partially rejected.
Mixed(p) ==
  /\ ResolvedUpdate(p)
  /\ TookIncoming(p) # {}
  /\ KeptCurrent(p) # {}

Pending(p) == req[p].kind \in {"sheet", "db"} /\ req[p].pc \notin {"idle", "done"}

\* C28: every webhook request is answered in the end (200, 400 or 500), also
\* when a store operation fails at any step of the request, the RECEIVED,
\* PROCESSED and ERROR audit writes included.
C28_Terminates ==
  \A p \in Reqs : Pending(p) ~> (Answered(p) /\ req[p].http \in {200, 400, 500})


\* C29: an event whose source is MANUAL is never ignored as loopback, also
\* when MANUAL wrote the row last; loopback is reported only when the row's
\* source equals the event's and is not MANUAL.
C29_ManualOverride ==
  \A p \in Reqs :
    (Called(p) /\ req[p].res.reason = "loopback")
    => /\ req[p].ev.source # "MANUAL"
       /\ SameSource(p)

\* A MANUAL update of a row that MANUAL wrote last is applied.
C29_Witness ==
  \E p \in Reqs :
    /\ Called(p) /\ Before(p) # NoRec
    /\ Before(p).source = "MANUAL" /\ req[p].ev.source = "MANUAL"
    /\ req[p].ev.operation = "UPDATE"
    /\ req[p].res.status = "success"


\* Request p processed again, at once, an UPDATE from the sheet or the
\* database that the call before it had applied.
ReplayedUpdate(p) ==
  /\ Replayed(p)
  /\ req[p].ev.operation = "UPDATE"
  /\ req[p].ev.source \in {"SHEET", "DB"}
  /\ req[p].res1.status = "success"

\* C30: an UPDATE from SHEET or DB, with or without a version, that was just
\* applied and is processed again at once is ignored, as stale_version or as
\* loopback, and leaves the records and the conflict log as they were.
C30_ReplaySafe ==
  \A p \in Reqs :
    ReplayedUpdate(p)
    => /\ req[p].res.status = "ignored"
       /\ req[p].res.reason \in {"stale_version", "loopback"}
       /\ users = req[p].u0
       /\ conflictLog = req[p].c0

\* The replay of an applied update that names no version: only the loopback
\* check stops it.
C30_Witness ==
  \E p \in Reqs :
    /\ ReplayedUpdate(p)
    /\ req[p].ev.version = 0
    /\ req[p].res.reason = "loopback"


\* The step applies an UPDATE to row i, whose last write was an applied UPDATE
\* as well.
SuccessiveUpdate(i) ==
  /\ users[i] # NoRec /\ users'[i] # NoRec
  /\ updates[i] >= 1
  /\ updates'[i] = updates[i] + 1

\* C31: in every interleaving of webhook requests no row receives two
\* successive applied UPDATE writes from the same source other than MANUAL.
C31_SourcesAlternate ==
  [][\A i \in Ids :
       SuccessiveUpdate(i)
       => \/ users'[i].source = "MANUAL"
          \/ users'[i].source # users[i].source]_vars


\* Request p is a direct call with an UPDATE that got past the stale and the
\* loopback check, conflicts with the stored row and is not the later write.
LosingUpdate(p) ==
  /\ Called(p) /\ Passed(p)
  /\ req[p].ev.operation = "UPDATE"
  /\ Differing(p) # {}
  /\ ~IncomingWins(req[p].ev, Before(p))

\* C32: an UPDATE that passes the stale and loopback checks and loses every
\* conflicting field to the current value leaves the business fields as they
\* were, raises the version by 1 and sets the source to the event's.
C32_LosingUpdateAdvances ==
  \A p \in Reqs :
    LosingUpdate(p)
    => LET id == req[p].ev.rowId IN
       /\ req[p].res.status = "success"
       /\ users[id] # NoRec
       /\ \A f \in Fields : users[id][f] = Before(p)[f]
       /\ users[id].version = Before(p).version + 1
       /\ users[id].source = req[p].ev.source

\* A losing update with two conflicting fields from another source.
C32_Witness ==
  \E p \in Reqs :
    /\ LosingUpdate(p)
    /\ Cardinality(Differing(p)) = 2
    /\ req[p].ev.source # Before(p).source
    /\ users[req[p].ev.rowId].source = req[p].ev.source


\* C33: when requests are processed one at a time, right after
\* processSyncEvent returns for an event that appended Conflict Records, the
\* row they name exists and holds, in each conflicting field, the resolved
\* value of that field's Conflict Record, whatever the event's operation.
C33_LogAgreesWithStore ==
  \A p \in Reqs :
    (Called(p) /\ Logged(p) # <<>>)
    => LET id == req[p].ev.rowId IN
       /\ users[id] # NoRec
       /\ \A i \in 1..Len(Logged(p)) :
            /\ Logged(p)[i].row_id = id
            /\ \E f \in Differing(p) :
                 /\ RecordOf(p, f, Logged(p)[i])
                 /\ Logged(p)[i].resolved_value = Quoted(users[id][f])


\* Request p is a webhook that ended in failure: answered 500, or with an
\* ERROR entry in the audit trail.
EndedInError(p) ==
  /\ Answered(p)
  /\ \/ req[p].http = 500
     \/ \E i \in 1..Len(Trail(p)) : Trail(p)[i].status = "ERROR"

\* C34: a webhook request that ends with an ERROR audit entry or an HTTP 500
\* has changed neither the records nor the conflict log, whichever of its
\* store operations failed.
C34_FailureAtomic ==
  \A p \in Reqs :
    EndedInError(p) => (users = req[p].u0 /\ conflictLog = req[p].c0)


\* Request p is a direct call whose INSERT for a row id the store did not hold
\* succeeded.
InsertedUnknown(p) ==
  /\ Called(p)
  /\ req[p].ev.operation = "INSERT"
  /\ Before(p) = NoRec
  /\ req[p].res.status = "success"

\* C35: after an INSERT event for an unknown rowId r is processed with
\* success, a record with identity r exists, so that a later event addressed
\* to r finds it.
C35_InsertIdentity ==
  \A p \in Reqs :
    InsertedUnknown(p)
    => /\ users[req[p].ev.rowId] # NoRec
       /\ req[p].res.rowId = req[p].ev.rowId


\* The identities of the records a state of the users table holds.
Identities(table) == {i \in Ids : table[i] # NoRec}

\* C36: a webhook from the spreadsheet never creates or removes a record: the
\* store holds the same record identities after the request as before it.
C36_SheetKeepsIdentities ==
  \A p \in Reqs :
    (Answered(p) /\ req[p].kind = "sheet")
    => Identities(users) = Identities(req[p].u0)

\* An edit of a cell of a row the store does not hold is answered and
\* creates nothing.
C36_Witness ==
  \E p \in Reqs :
    /\ Answered(p) /\ req[p].kind = "sheet"
    /\ req[p].ev # NoEvent /\ Before(p) = NoRec
    /\ req[p].res.error = "Record not found"
    /\ Identities(users) # {}


\* Request p is a webhook answered 200 whose event was ignored or named no
\* record.
AnsweredWithoutWrite(p) ==
  /\ Answered(p) /\ req[p].http = 200
  /\ \/ req[p].res.status = "ignored"
     \/ req[p].res.error = "Record not found"

UpdatedByHook(p) ==
  /\ Answered(p) /\ req[p].ev # NoEvent
  /\ req[p].ev.operation = "UPDATE"
  /\ Before(p) # NoRec
  /\ req[p].res.status = "success"

\* C38: no UPDATE event, whatever keys its changes hold (the id column
\* included), changes the identity of an existing record, and the record's
\* version and source after it are the old version + 1 and the event's source.
C38_IdentityStable ==
  \A p \in Reqs :
    UpdatedByHook(p)
    => LET id == req[p].ev.rowId IN
       /\ Identities(users) = Identities(req[p].u0)
       /\ users[id] # NoRec
       /\ users[id].version = Before(p).version + 1
       /\ users[id].source = req[p].ev.source


\* Request p is an answered DB webhook with an UPDATE whose payload has no
\* changes key and whose event got past the stale and the loopback check.
BareUpdate(p) ==
  /\ Answered(p) /\ req[p].kind = "db"
  /\ req[p].ev # NoEvent
  /\ req[p].inp.changes = NoChanges
  /\ req[p].ev.operation = "UPDATE"
  /\ Passed(p)

\* C39: a DB-origin UPDATE whose payload omits changes and that passes the
\* stale and loopback checks is processed without a server error: HTTP 200,
\* audit PROCESSED, no business field changed.
C39_BareUpdateProcessed ==
  \A p \in Reqs :
    BareUpdate(p)
    => /\ req[p].http = 200
       /\ Trail(p)[Len(Trail(p))].status = "PROCESSED"
       /\ users[req[p].ev.rowId] # NoRec
       /\ \A f \in Fields : users[req[p].ev.rowId][f] = Before(p)[f]

=============================================================================
